---- MODULE Spec2Model ----
(***************************************************************************)
(* A model of pyshtools/shio/shread.py: shread(filename, lmax, error,      *)
(* header, skip) and _iscomment(line).                                     *)
(*                                                                         *)
(* A file is a sequence of one-character strings (its bytes).  A file      *)
(* handle is its position `pos` (0-based, as f.tell()).  Strings of the    *)
(* program (lines, tokens) are sequences of characters too, so that        *)
(* str.split, str.isspace, str.isdecimal, int, float and complex are       *)
(* computed from the characters.                                           *)
(***************************************************************************)
EXTENDS Integers, Sequences, FiniteSets, TLC

\* ------------------------------------------------------------ bounds
\* Largest degree written in a generated file (and largest lmax passed).
MaxDeg == 1
\* Largest value of the argument skip.
MaxSkip == 1

\* -------------------------------------------------------- characters
NL == "\n"
SP == " "
White == {SP, NL, "\t"}
DigitChar == <<"0", "1", "2", "3", "4", "5", "6", "7", "8", "9">>
Digits == {DigitChar[k] : k \in 1..10}
DigitVal(c) == (CHOOSE k \in 1..10 : DigitChar[k] = c) - 1

\* str.isspace(): at least one character, all of them whitespace.
IsSpace(s) == Len(s) > 0 /\ \A k \in 1..Len(s) : s[k] \in White

\* str.isdecimal(): at least one character, all of them decimal digits.
IsDecimal(s) == Len(s) > 0 /\ \A k \in 1..Len(s) : s[k] \in Digits

\* str.split(): the maximal runs of non-whitespace characters, in order.
Split(s) ==
    LET RECURSIVE go(_, _, _)
        go(k, cur, acc) ==
            IF k > Len(s)
            THEN IF cur = <<>> THEN acc ELSE Append(acc, cur)
            ELSE IF s[k] \in White
                 THEN go(k + 1, <<>>, IF cur = <<>> THEN acc ELSE Append(acc, cur))
                 ELSE go(k + 1, Append(cur, s[k]), acc)
    IN go(1, <<>>, <<>>)

\* int(s) of a decimal string (the program applies int only to tokens of a
\* line that _iscomment rejected, so both are isdecimal).
RECURSIVE int(_)
int(s) == IF s = <<>> THEN 0
          ELSE 10 * int(SubSeq(s, 1, Len(s) - 1)) + DigitVal(s[Len(s)])

\* ------------------------------------------------- numeric literals
\* Real values are kept in tenths (fixed point); the literals of the
\* generated files are  [sign] digits [ "." digit ].
Unsigned(s) == IF Len(s) > 0 /\ s[1] \in {"+", "-"} THEN Tail(s) ELSE s
Sign(s) == IF Len(s) > 0 /\ s[1] = "-" THEN -1 ELSE 1
IsFloatLit(s) ==
    LET u == Unsigned(s)
    IN \/ IsDecimal(u)
       \/ /\ Len(u) >= 3
          /\ u[Len(u) - 1] = "."
          /\ IsDecimal(SubSeq(u, 1, Len(u) - 2))
          /\ u[Len(u)] \in Digits
FloatVal(s) ==
    LET u == Unsigned(s)
    IN IF IsDecimal(u) THEN Sign(s) * 10 * int(u)
       ELSE Sign(s) * (10 * int(SubSeq(u, 1, Len(u) - 2)) + DigitVal(u[Len(u)]))

\* float(s): [ok, val]; ok = FALSE stands for ValueError.
float(s) == IF IsFloatLit(s) THEN [ok |-> TRUE, val |-> FloatVal(s)]
            ELSE [ok |-> FALSE, val |-> 0]

\* The imaginary part written before a trailing "j": a float literal, or
\* nothing or a bare sign (1j, +1j, -1j).
IsImagLit(s) == s \in {<<>>, <<"+">>, <<"-">>} \/ IsFloatLit(s)
ImagVal(s) == IF s \in {<<>>, <<"+">>} THEN 10
              ELSE IF s = <<"-">> THEN -10 ELSE FloatVal(s)
\* Where "<real><sign><imag>" splits: a sign that is not the first character.
ComplexCut(s) ==
    {k \in 2..Len(s) : /\ s[k] \in {"+", "-"}
                       /\ IsFloatLit(SubSeq(s, 1, k - 1))
                       /\ IsImagLit(SubSeq(s, k, Len(s)))}

\* complex(s): [ok, val], val = <<re, im>>; a float literal is complex too.
complex(s) ==
    IF IsFloatLit(s) THEN [ok |-> TRUE, val |-> <<FloatVal(s), 0>>]
    ELSE IF Len(s) > 0 /\ s[Len(s)] = "j"
    THEN LET b == SubSeq(s, 1, Len(s) - 1)
         IN IF IsImagLit(b) THEN [ok |-> TRUE, val |-> <<0, ImagVal(b)>>]
            ELSE IF ComplexCut(b) # {}
            THEN LET k == CHOOSE c \in ComplexCut(b) : TRUE
                 IN [ok |-> TRUE,
                     val |-> <<FloatVal(SubSeq(b, 1, k - 1)),
                               ImagVal(SubSeq(b, k, Len(b)))>>]
            ELSE [ok |-> FALSE, val |-> <<0, 0>>]
    ELSE [ok |-> FALSE, val |-> <<0, 0>>]

\* ------------------------------------------------------ _iscomment
_iscomment(line) ==
    IF IsSpace(line) THEN TRUE
    ELSE IF Len(Split(line)) >= 4
         THEN IF IsDecimal(Split(line)[1]) /\ IsDecimal(Split(line)[2])
              THEN FALSE
              ELSE TRUE
         ELSE TRUE

\* ------------------------------------------------------ file handle
\* f.read(1) at position p of file f: one byte, or nothing at end of file.
Read1(f, p) == IF p < Len(f) THEN <<f[p + 1]>> ELSE <<>>
\* The position after f.read(1).
AfterRead1(f, p) == IF p < Len(f) THEN p + 1 ELSE p
\* f.readline() at position p: up to and including the next line break, or
\* up to the end of the file; the empty string at end of file.
RECURSIVE LineEnd(_, _)
LineEnd(f, k) == IF k >= Len(f) THEN Len(f)
                 ELSE IF f[k] = NL THEN k ELSE LineEnd(f, k + 1)
ReadLine(f, p) == IF p >= Len(f) THEN <<>> ELSE SubSeq(f, p + 1, LineEnd(f, p + 1))
\* A seek that stops at the start of the file instead of failing.
seekClamped(target) == [ok |-> TRUE, pos |-> IF target < 0 THEN 0 ELSE target]
\* f.seek(off, whence), as the absolute target it asks for: the new position,
\* or, for a target before the start of the file, OSError (EINVAL).
seek(target) == IF target >= 0 THEN [ok |-> TRUE, pos |-> target]
                ELSE [ok |-> FALSE, pos |-> 0]

\* ------------------------------------------------------------ state
VARIABLES
    file,         \* the bytes of the file named by filename
    lmax,         \* argument lmax: <<>> for None, <<k>> for the integer k
    error,        \* argument error
    header,       \* argument header
    skip,         \* argument skip
    pc,           \* the statement shread is at
    pos,          \* position of the open file handle f
    line,         \* local line
    lmaxfile,     \* local lmaxfile
    lmaxout,      \* local lmaxout
    kind,         \* local kind: "real" or "complex" ("" before it is set)
    coeffs,       \* local coeffs: [<<c, l, m>> -> value] (<<>> before it is set)
    errors,       \* local errors, as coeffs
    header_list,  \* local header_list
    lstart,       \* local lstart
    i,            \* loop variable of the two `for i in range(skip)` loops
    degree,       \* loop variable degree
    order,        \* loop variable order
    exc,          \* the exception shread raised (NoExc while none)
    ret,          \* the tuple shread returned (<<>> while none)
    consumed,     \* history: start positions of the data lines the grid reader took
    written,      \* history: the cells <<l, m>> of coeffs written, in order
    run,          \* 1: the call under study; 2: the comparison call
    first         \* the outcome of run 1 once run 2 has started

args == <<file, lmax, error, header, skip>>
locals == <<pos, line, lmaxfile, lmaxout, kind, coeffs, errors, header_list,
            lstart, i, degree, order>>
hist == <<consumed, written>>
vars == <<args, pc, locals, exc, ret, hist, run, first>>

NoExc == [type |-> "", kind |-> "", ctx |-> "", read |-> <<>>, expected |-> <<>>]
\* OSError(22, 'Invalid argument') of a seek before the start of the file.
OSErrorInvalid == [NoExc EXCEPT !.type = "OSError", !.kind = "InvalidArgument"]
\* RuntimeError('End of file encountered ...').
EndOfFile(ctx) == [NoExc EXCEPT !.type = "RuntimeError", !.kind = "EndOfFile",
                                !.ctx = ctx]
\* RuntimeError('End of file encountered at degree and order {:d}, {:d}.').
EndOfFileAt(d, o) == [EndOfFile("grid") EXCEPT !.expected = <<d, o>>]
\* ValueError of float(), of complex(), or the one raised at lines 118-121.
FormatError(ctx) == [NoExc EXCEPT !.type = "ValueError", !.kind = "FormatError",
                                  !.ctx = ctx]
\* RuntimeError('When reading errors, each line must contain at least 6
\* elements. ...').
InsufficientFields == [NoExc EXCEPT !.type = "RuntimeError",
                                    !.kind = "InsufficientFields"]
\* RuntimeError('Degree and order from file do not correspond to expected
\* values.\n Read {:d}, {:d}. Expected {:d}, {:d}.'.format(degree, order, l, m)):
\* the first two arguments of format fill "Read", the last two "Expected".
OrderMismatch(a, b, c, d) ==
    [NoExc EXCEPT !.type = "RuntimeError", !.kind = "OrderMismatch",
                  !.read = <<a, b>>, !.expected = <<c, d>>]

\* raise e: the call ends, nothing is returned.
Raise(e) == pc' = "raised" /\ exc' = e /\ UNCHANGED ret

\* numpy.zeros((2, n+1, n+1)) of the given kind.
Zero(k) == IF k = "real" THEN 0 ELSE <<0, 0>>
zeros(n, k) == [c \in (0..1) \X (0..n) \X (0..n) |-> Zero(k)]
\* float or complex, by kind (lines 181-186 and 195-200).
Parse(k, tok) == IF k = "real" THEN float(tok) ELSE complex(tok)

\* ------------------------------------------------- pass 1: tail scan
\* Lines 81-83: open(filename, 'rb'); line = ''; f.seek(-2, os.SEEK_END).
TailOpen ==
    /\ pc = "tail_open"
    /\ IF seek(Len(file) - 2).ok
       THEN /\ pos' = seek(Len(file) - 2).pos
            /\ line' = <<>>
            /\ pc' = "tail_strip"
            /\ UNCHANGED <<exc, ret>>
       ELSE /\ Raise(OSErrorInvalid)
            /\ UNCHANGED <<pos, line>>
    /\ UNCHANGED <<args, lmaxfile, lmaxout, kind, coeffs, errors, header_list,
                   lstart, i, degree, order, hist, run, first>>

\* Lines 85-87: while f.read(1) == b'\n': f.seek(-2, os.SEEK_CUR); then, the
\* loop left, f.seek(-2, os.SEEK_CUR) and the first test of line 89 (line is '').
TailStrip ==
    /\ pc = "tail_strip"
    /\ LET to == seek(AfterRead1(file, pos) - 2)
       IN IF ~to.ok
          THEN Raise(OSErrorInvalid) /\ UNCHANGED pos
          ELSE /\ pos' = to.pos
               /\ pc' = IF Read1(file, pos) = <<NL>> THEN "tail_strip"
                        ELSE IF _iscomment(line) THEN "tail_back" ELSE "lmax"
               /\ UNCHANGED <<exc, ret>>
    /\ UNCHANGED <<args, line, lmaxfile, lmaxout, kind, coeffs, errors,
                   header_list, lstart, i, degree, order, hist, run, first>>

\* Lines 90-91: while f.read(1) != b'\n': f.seek(-2, os.SEEK_CUR).
TailBack ==
    /\ pc = "tail_back"
    /\ IF Read1(file, pos) # <<NL>>
       THEN LET to == seek(AfterRead1(file, pos) - 2)
            IN IF to.ok
               THEN pos' = to.pos /\ pc' = "tail_back" /\ UNCHANGED <<exc, ret>>
               ELSE Raise(OSErrorInvalid) /\ UNCHANGED pos
       ELSE /\ pos' = AfterRead1(file, pos)
            /\ pc' = "tail_readline"
            /\ UNCHANGED <<exc, ret>>
    /\ UNCHANGED <<args, line, lmaxfile, lmaxout, kind, coeffs, errors,
                   header_list, lstart, i, degree, order, hist, run, first>>

\* Lines 92-93, and the test of line 89 that follows them:
\* line = f.readline().decode(); f.seek(-len(line)-2, os.SEEK_CUR).
TailReadLine ==
    /\ pc = "tail_readline"
    /\ line' = ReadLine(file, pos)
    /\ LET to == seek(pos + Len(line') - Len(line') - 2)
       IN IF to.ok
          THEN /\ pos' = to.pos
               /\ pc' = IF _iscomment(line') THEN "tail_back" ELSE "lmax"
               /\ UNCHANGED <<exc, ret>>
          ELSE Raise(OSErrorInvalid) /\ UNCHANGED pos
    /\ UNCHANGED <<args, lmaxfile, lmaxout, kind, coeffs, errors, header_list,
                   lstart, i, degree, order, hist, run, first>>

\* A variant of lines 97-101 that forgets the cap: lmaxout = lmaxfile.
LmaxOutNoCap(cap, fromfile) == fromfile

\* Lines 97-101: lmaxfile = int(line.split()[0]); lmaxout = min(lmax, lmaxfile)
\* if lmax is not None else lmaxfile.
LmaxOut(cap, fromfile) ==
    IF cap # <<>>
    THEN IF cap[1] < fromfile THEN cap[1] ELSE fromfile
    ELSE fromfile

\* Lines 103-121: kind from the third token of the tail line: float, else
\* complex, else ValueError.  "" stands for the ValueError.
KindOf(tok) == IF float(tok).ok THEN "real"
               ELSE IF complex(tok).ok THEN "complex" ELSE ""

\* The statement reached when a file is opened for a forward pass: the skip
\* loop (lines 125-126, 152-153), the header (132, 155), or what follows.
AfterOpen(skipping, heading, rest) ==
    IF skip # 0 THEN skipping ELSE IF header THEN heading ELSE rest

\* Lines 95-124: lmaxfile, lmaxout, kind, coeffs, errors; then the file is
\* opened again for the start locator.
DetermineKind ==
    /\ pc = "lmax"
    /\ lmaxfile' = int(Split(line)[1])
    /\ lmaxout' = LmaxOut(lmax, lmaxfile')
    /\ LET k == KindOf(Split(line)[3])
       IN IF k = "" \/ lmaxout' + 1 < 0
          THEN /\ Raise(FormatError("kind"))
               /\ UNCHANGED <<kind, coeffs, errors, pos, i>>
          ELSE /\ kind' = k
               /\ coeffs' = zeros(lmaxout', k)
               /\ errors' = IF error THEN zeros(lmaxout', k) ELSE errors
               /\ pos' = 0
               /\ i' = 0
               /\ pc' = AfterOpen("skip", "header", "start")
               /\ UNCHANGED <<exc, ret>>
    /\ UNCHANGED <<args, line, header_list, lstart, degree, order, hist, run,
                   first>>

\* --------------------------------------------- pass 2: start locator
\* Lines 126-130, one iteration: line = f.readline(); '' raises.
SkipLine ==
    /\ pc = "skip"
    /\ line' = ReadLine(file, pos)
    /\ IF line' = <<>>
       THEN Raise(EndOfFile("skip")) /\ UNCHANGED <<pos, i>>
       ELSE /\ pos' = pos + Len(line')
            /\ i' = i + 1
            /\ pc' = IF i + 1 < skip THEN "skip"
                     ELSE IF header THEN "header" ELSE "start"
            /\ UNCHANGED <<exc, ret>>
    /\ UNCHANGED <<args, lmaxfile, lmaxout, kind, coeffs, errors, header_list,
                   lstart, degree, order, hist, run, first>>

\* Lines 132-137: line = f.readline(); '' raises; header_list = line.split().
ReadHeader ==
    /\ pc = "header"
    /\ line' = ReadLine(file, pos)
    /\ IF line' = <<>>
       THEN Raise(EndOfFile("header")) /\ UNCHANGED <<pos, header_list>>
       ELSE /\ pos' = pos + Len(line')
            /\ header_list' = Split(line')
            /\ pc' = "start"
            /\ UNCHANGED <<exc, ret>>
    /\ UNCHANGED <<args, lmaxfile, lmaxout, kind, coeffs, errors, lstart, i,
                   degree, order, hist, run, first>>

\* Lines 139-142, and each turn of the loop of lines 143-147:
\* line = f.readline(); '' raises.
StartRead ==
    /\ pc = "start"
    /\ line' = ReadLine(file, pos)
    /\ IF line' = <<>>
       THEN Raise(EndOfFile("lstart")) /\ UNCHANGED pos
       ELSE /\ pos' = pos + Len(line')
            /\ pc' = IF _iscomment(line') THEN "start" ELSE "lstart"
            /\ UNCHANGED <<exc, ret>>
    /\ UNCHANGED <<args, lmaxfile, lmaxout, kind, coeffs, errors, header_list,
                   lstart, i, degree, order, hist, run, first>>

\* Lines 148-151: lstart = int(line.split()[0]); the file is opened again for
\* the grid reader, whose range(lstart, lmaxout+1) starts at lstart.
StartFound ==
    /\ pc = "lstart"
    /\ lstart' = int(Split(line)[1])
    /\ degree' = lstart'
    /\ pos' = 0
    /\ i' = 0
    /\ pc' = AfterOpen("reskip", "reheader", "for_degree")
    /\ UNCHANGED <<args, line, lmaxfile, lmaxout, kind, coeffs, errors,
                   header_list, order, exc, ret, hist, run, first>>

\* ----------------------------------------------- pass 3: grid reader
\* Lines 153-154, one iteration: f.readline(), its result dropped.
ReSkipLine ==
    /\ pc = "reskip"
    /\ pos' = pos + Len(ReadLine(file, pos))
    /\ i' = i + 1
    /\ pc' = IF i + 1 < skip THEN "reskip"
             ELSE IF header THEN "reheader" ELSE "for_degree"
    /\ UNCHANGED <<args, line, lmaxfile, lmaxout, kind, coeffs, errors,
                   header_list, lstart, degree, order, exc, ret, hist, run, first>>

\* Lines 155-156: f.readline(), its result dropped.
ReHeader ==
    /\ pc = "reheader"
    /\ pos' = pos + Len(ReadLine(file, pos))
    /\ pc' = "for_degree"
    /\ UNCHANGED <<args, line, lmaxfile, lmaxout, kind, coeffs, errors,
                   header_list, lstart, i, degree, order, exc, ret, hist, run,
                   first>>

\* Line 158: for degree in range(lstart, lmaxout+1); degree holds the next
\* value of the range.  An exhausted range leads to line 202.
ForDegree ==
    /\ pc = "for_degree"
    /\ IF degree <= lmaxout
       THEN order' = 0 /\ pc' = "grid_read"
       ELSE pc' = "return" /\ UNCHANGED order
    /\ UNCHANGED <<args, pos, line, lmaxfile, lmaxout, kind, coeffs, errors,
                   header_list, lstart, i, degree, exc, ret, hist, run, first>>

\* Line 159: for order in range(degree+1), after a cell is done.
ForOrder ==
    /\ pc = "for_order"
    /\ IF order + 1 < degree + 1
       THEN order' = order + 1 /\ pc' = "grid_read" /\ UNCHANGED degree
       ELSE degree' = degree + 1 /\ pc' = "for_degree" /\ UNCHANGED order
    /\ UNCHANGED <<args, pos, line, lmaxfile, lmaxout, kind, coeffs, errors,
                   header_list, lstart, i, exc, ret, hist, run, first>>

\* A variant of lines 160-170 in which a comment line uses up the cell the
\* reader was waiting for.
GridReadCommentTakesCell ==
    /\ pc = "grid_read"
    /\ line' = ReadLine(file, pos)
    /\ IF line' = <<>>
       THEN Raise(EndOfFileAt(degree, order)) /\ UNCHANGED <<pos, consumed>>
       ELSE /\ pos' = pos + Len(line')
            /\ pc' = IF _iscomment(line') THEN "for_order" ELSE "grid_check"
            /\ consumed' = IF _iscomment(line') THEN consumed
                           ELSE Append(consumed, pos)
            /\ UNCHANGED <<exc, ret>>
    /\ UNCHANGED <<args, lmaxfile, lmaxout, kind, coeffs, errors, header_list,
                   lstart, i, degree, order, written, run, first>>

\* Lines 160-164, and each turn of the loop of lines 165-170:
\* line = f.readline(); '' raises, naming degree and order.
GridRead ==
    /\ pc = "grid_read"
    /\ line' = ReadLine(file, pos)
    /\ IF line' = <<>>
       THEN Raise(EndOfFileAt(degree, order)) /\ UNCHANGED <<pos, consumed>>
       ELSE /\ pos' = pos + Len(line')
            /\ pc' = IF _iscomment(line') THEN "grid_read" ELSE "grid_check"
            /\ consumed' = IF _iscomment(line') THEN consumed
                           ELSE Append(consumed, pos)
            /\ UNCHANGED <<exc, ret>>
    /\ UNCHANGED <<args, lmaxfile, lmaxout, kind, coeffs, errors, header_list,
                   lstart, i, degree, order, written, run, first>>

\* A variant of lines 172-179 that compares the degrees only.
GridCheckDegreeOnly ==
    /\ pc = "grid_check"
    /\ LET l == int(Split(line)[1])
           m == int(Split(line)[2])
       IN IF degree # l
          THEN Raise(OrderMismatch(degree, order, l, m))
          ELSE pc' = "grid_coeffs" /\ UNCHANGED <<exc, ret>>
    /\ UNCHANGED <<args, locals, hist, run, first>>

\* Lines 172-179: l, m = the first two tokens; a pair other than (degree,
\* order) raises.
GridCheck ==
    /\ pc = "grid_check"
    /\ LET l == int(Split(line)[1])
           m == int(Split(line)[2])
       IN IF degree # l \/ order # m
          THEN Raise(OrderMismatch(degree, order, l, m))
          ELSE pc' = "grid_coeffs" /\ UNCHANGED <<exc, ret>>
    /\ UNCHANGED <<args, locals, hist, run, first>>

\* A variant of lines 181-186 that takes coeffs[0, l, m] from token 4 and
\* coeffs[1, l, m] from token 3.
GridCoeffsSwapped ==
    /\ pc = "grid_coeffs"
    /\ LET l == int(Split(line)[1])
           m == int(Split(line)[2])
           c0 == Parse(kind, Split(line)[4])
           c1 == Parse(kind, Split(line)[3])
       IN IF ~c0.ok \/ ~c1.ok
          THEN Raise(FormatError("coeffs")) /\ UNCHANGED <<coeffs, written>>
          ELSE /\ coeffs' = [coeffs EXCEPT ![<<0, l, m>>] = c0.val,
                                           ![<<1, l, m>>] = c1.val]
               /\ written' = Append(written, <<l, m>>)
               /\ pc' = IF error THEN "grid_errors" ELSE "for_order"
               /\ UNCHANGED <<exc, ret>>
    /\ UNCHANGED <<args, pos, line, lmaxfile, lmaxout, kind, errors,
                   header_list, lstart, i, degree, order, consumed, run, first>>

\* Lines 181-186: coeffs[0, l, m] and coeffs[1, l, m] from tokens 3 and 4.
GridCoeffs ==
    /\ pc = "grid_coeffs"
    /\ LET l == int(Split(line)[1])
           m == int(Split(line)[2])
           c0 == Parse(kind, Split(line)[3])
           c1 == Parse(kind, Split(line)[4])
       IN IF ~c0.ok
          THEN Raise(FormatError("coeffs")) /\ UNCHANGED <<coeffs, written>>
          ELSE IF ~c1.ok
          THEN /\ Raise(FormatError("coeffs"))
               /\ coeffs' = [coeffs EXCEPT ![<<0, l, m>>] = c0.val]
               /\ UNCHANGED written
          ELSE /\ coeffs' = [coeffs EXCEPT ![<<0, l, m>>] = c0.val,
                                           ![<<1, l, m>>] = c1.val]
               /\ written' = Append(written, <<l, m>>)
               /\ pc' = IF error THEN "grid_errors" ELSE "for_order"
               /\ UNCHANGED <<exc, ret>>
    /\ UNCHANGED <<args, pos, line, lmaxfile, lmaxout, kind, errors,
                   header_list, lstart, i, degree, order, consumed, run, first>>

\* A variant of lines 188-200 without the test of line 189: the missing
\* token raises IndexError at line 196.
GridErrorsUnchecked ==
    /\ pc = "grid_errors"
    /\ IF Len(Split(line)) < 6
       THEN /\ Raise([NoExc EXCEPT !.type = "IndexError", !.kind = "IndexError"])
            /\ UNCHANGED errors
       ELSE LET l == int(Split(line)[1])
                m == int(Split(line)[2])
                e0 == Parse(kind, Split(line)[5])
                e1 == Parse(kind, Split(line)[6])
            IN IF ~e0.ok \/ ~e1.ok
               THEN Raise(FormatError("errors")) /\ UNCHANGED errors
               ELSE /\ errors' = [errors EXCEPT ![<<0, l, m>>] = e0.val,
                                                ![<<1, l, m>>] = e1.val]
                    /\ pc' = "for_order"
                    /\ UNCHANGED <<exc, ret>>
    /\ UNCHANGED <<args, pos, line, lmaxfile, lmaxout, kind, coeffs,
                   header_list, lstart, i, degree, order, hist, run, first>>

\* Lines 188-200: fewer than 6 tokens raises; errors[0, l, m] and
\* errors[1, l, m] from tokens 5 and 6.
GridErrors ==
    /\ pc = "grid_errors"
    /\ IF Len(Split(line)) < 6
       THEN Raise(InsufficientFields) /\ UNCHANGED errors
       ELSE LET l == int(Split(line)[1])
                m == int(Split(line)[2])
                e0 == Parse(kind, Split(line)[5])
                e1 == Parse(kind, Split(line)[6])
            IN IF ~e0.ok
               THEN Raise(FormatError("errors")) /\ UNCHANGED errors
               ELSE IF ~e1.ok
               THEN /\ Raise(FormatError("errors"))
                    /\ errors' = [errors EXCEPT ![<<0, l, m>>] = e0.val]
               ELSE /\ errors' = [errors EXCEPT ![<<0, l, m>>] = e0.val,
                                                ![<<1, l, m>>] = e1.val]
                    /\ pc' = "for_order"
                    /\ UNCHANGED <<exc, ret>>
    /\ UNCHANGED <<args, pos, line, lmaxfile, lmaxout, kind, coeffs,
                   header_list, lstart, i, degree, order, hist, run, first>>

\* Lines 202-209: the tuple returned, by the flags error and header.
Return ==
    /\ pc = "return"
    /\ ret' = IF error /\ header THEN <<coeffs, errors, header_list, lmaxout>>
              ELSE IF error /\ ~header THEN <<coeffs, errors, lmaxout>>
              ELSE IF ~error /\ header THEN <<coeffs, header_list, lmaxout>>
              ELSE <<coeffs, lmaxout>>
    /\ pc' = "done"
    /\ UNCHANGED <<args, locals, exc, hist, run, first>>

\* The call is over: it returned or it raised.
Terminated == pc \in {"done", "raised"}

Next ==
    \/ TailOpen \/ TailStrip \/ TailBack \/ TailReadLine \/ DetermineKind
    \/ SkipLine \/ ReadHeader \/ StartRead \/ StartFound
    \/ ReSkipLine \/ ReHeader \/ ForDegree \/ ForOrder
    \/ GridRead \/ GridCheck \/ GridCoeffs \/ GridErrors \/ Return

\* ------------------------------------------------ the files generated
Dig(n) == <<DigitChar[(n % 10) + 1]>>
RECURSIVE Join(_)
Join(toks) == IF toks = <<>> THEN <<>>
              ELSE IF Len(toks) = 1 THEN toks[1]
              ELSE toks[1] \o <<SP>> \o Join(Tail(toks))
TextLine(toks) == Join(toks) \o <<NL>>
RECURSIVE Flatten(_)
Flatten(ls) == IF ls = <<>> THEN <<>> ELSE ls[1] \o Flatten(Tail(ls))

\* The cells of degrees a..b in row-major order.
RECURSIVE Cells(_, _)
Cells(a, b) == IF a > b THEN <<>>
               ELSE [k \in 1..(a + 1) |-> <<a, k - 1>>] \o Cells(a + 1, b)
CellIndex(l, m) == (l * (l + 1)) \div 2 + m

Styles == {"real4", "real6", "complex6"}
\* The tokens of the data line of cell (l, m): every cell has its own values.
DataTokens(l, m, st) ==
    LET x == CellIndex(l, m)
        c0 == IF st = "complex6" THEN Dig(x) \o <<"j">> ELSE Dig(x)
        c1 == Dig(19 - x)
        e0 == IF st = "complex6" THEN Dig(x + 3) \o <<"+">> \o Dig(x) \o <<"j">>
              ELSE Dig(x + 3) \o <<".", "5">>
        e1 == <<"-">> \o Dig(x + 7)
    IN IF st = "real4" THEN <<Dig(l), Dig(m), c0, c1>>
       ELSE <<Dig(l), Dig(m), c0, c1, e0, e1>>
Body(a, b, st) ==
    LET cs == Cells(a, b)
    IN [k \in 1..Len(cs) |-> TextLine(DataTokens(cs[k][1], cs[k][2], st))]
Ranges == {<<a, b>> \in (0..MaxDeg) \X (0..MaxDeg) : a <= b}

\* Comment lines, one of each way _iscomment has of saying so.
EmptyLine == <<NL>>
BlankLine == <<SP, NL>>
ShortLine == TextLine(<< <<"m">>, <<"2">> >>)
ThreeInts == TextLine(<< <<"0">>, <<"0">>, <<"1">> >>)
NotDecimal == TextLine(<< <<"0">>, <<"-", "1">>, <<"1">>, <<"1">> >>)
Comments == {EmptyLine, BlankLine, ShortLine, ThreeInts, NotDecimal}
\* A first line that reads as a data line.
DataHeader == TextLine(<< <<"7">>, <<"7">>, <<"9">>, <<"9">> >>)

InsertAt(ls, k, xs) == SubSeq(ls, 1, k) \o xs \o SubSeq(ls, k + 1, Len(ls))
DropAt(ls, k) == SubSeq(ls, 1, k - 1) \o SubSeq(ls, k + 1, Len(ls))
DupAt(ls, k) == SubSeq(ls, 1, k) \o SubSeq(ls, k, Len(ls))
SwapAt(ls, k) == [j \in 1..Len(ls) |->
                    IF j = k THEN ls[k + 1] ELSE IF j = k + 1 THEN ls[k] ELSE ls[j]]

\* Blocks of comment lines: each kind alone, and two in a row.
Blocks == {<<c>> : c \in Comments} \cup {<<EmptyLine, EmptyLine>>,
                                         <<ShortLine, BlankLine>>}
\* Well-formed bodies, bare or after a header line.
Bases ==
    {pre \o Body(r[1], r[2], st) :
        pre \in {<<>>, <<ShortLine>>, <<DataHeader>>}, r \in Ranges, st \in Styles}
\* A file of comment lines only.
CommentOnly == {<<>>} \cup Blocks
\* A body with a block of comment lines at any one place.
Sprinkled(b) == {InsertAt(b, k, blk) : k \in 0..Len(b), blk \in Blocks}
\* Bodies with a line missing, repeated, or two neighbours exchanged.
Perturbed ==
    UNION {LET b == Body(r[1], r[2], "real4")
           IN {DropAt(b, k) : k \in 1..Len(b)}
              \cup {DupAt(b, k) : k \in 1..Len(b)}
              \cup {SwapAt(b, k) : k \in 1..(Len(b) - 1)} : r \in Ranges}
\* Data lines with a token that does not parse, or with too few tokens.
Defects(l, m) ==
    LET t == DataTokens(l, m, "real6")
    IN {TextLine(SubSeq(t, 1, 5)),
        TextLine([t EXCEPT ![3] = <<"x">>]),
        TextLine([t EXCEPT ![4] = <<"2", "j">>]),
        TextLine([t EXCEPT ![6] = <<"x">>]),
        TextLine(SubSeq([t EXCEPT ![4] = <<"x">>], 1, 4))}
Defective ==
    UNION {LET b == Body(r[1], r[2], "real6")
               cs == Cells(r[1], r[2])
           IN UNION {{[b EXCEPT ![k] = d] : d \in Defects(cs[k][1], cs[k][2])} :
                        k \in 1..Len(b)} : r \in Ranges}
\* The bytes of a file of the given lines, and the same without the last
\* line break.
Bytes(ls) == Flatten(ls)
Unterminated(ls) == SubSeq(Flatten(ls), 1, Len(Flatten(ls)) - 1)

Files ==
    {Bytes(ls) : ls \in Bases \cup CommentOnly \cup Perturbed \cup Defective}
    \cup {Bytes(ls) : ls \in UNION {Sprinkled(Body(r[1], r[2], "real4")) : r \in Ranges}}
    \cup {Unterminated(ls) : ls \in Bases}
\* Files for the comparison of a file with and without a comment line.
CommentedFiles ==
    {Bytes(ls) :
        ls \in UNION {Sprinkled(pre \o Body(a, MaxDeg, "real6")) :
                         pre \in {<<>>, <<ShortLine>>}, a \in 0..MaxDeg}}

LmaxArgs == {<<>>} \cup {<<k>> : k \in 0..MaxDeg}

\* The state at the call of shread.
Called ==
    /\ pc = "tail_open"
    /\ pos = 0
    /\ line = <<>>
    /\ lmaxfile = 0
    /\ lmaxout = 0
    /\ kind = ""
    /\ coeffs = <<>>
    /\ errors = <<>>
    /\ header_list = <<>>
    /\ lstart = 0
    /\ i = 0
    /\ degree = 0
    /\ order = 0
    /\ exc = NoExc
    /\ ret = <<>>
    /\ consumed = <<>>
    /\ written = <<>>

InitArgs ==
    /\ lmax \in LmaxArgs
    /\ error \in BOOLEAN
    /\ header \in BOOLEAN
    /\ skip \in 0..MaxSkip
    /\ run = 1
    /\ first = <<>>

Init == file \in Files /\ InitArgs /\ Called

Spec == Init /\ [][Next]_vars

\* Files for the runs to completion: comment lines only, and bodies with
\* comment lines before the first data line and after the last.
LiveFiles ==
    {Bytes(ls) : ls \in CommentOnly}
    \cup {Bytes(pre \o Body(a, MaxDeg, "real6") \o post) :
             pre \in {<<>>, <<EmptyLine>>},
             post \in {<<>>, <<BlankLine, ThreeInts>>},
             a \in {0, MaxDeg}}
    \cup {Unterminated(Body(MaxDeg, MaxDeg, "real4"))}
\* Every step of shread is taken: a call runs until it returns or raises.
InitLive == file \in LiveFiles /\ InitArgs /\ Called
SpecLive == InitLive /\ [][Next]_vars /\ WF_vars(Next)

\* ----------------------------------------- the lines of a file, for
\* ----------------------------------------- the statements about it
RECURSIVE LineStartsFrom(_, _)
LineStartsFrom(f, p) ==
    IF p >= Len(f) THEN <<>>
    ELSE <<p>> \o LineStartsFrom(f, p + Len(ReadLine(f, p)))
\* The positions at which the lines of f start.
LineStarts(f) == LineStartsFrom(f, 0)
LineAt(f, p) == ReadLine(f, p)
IsData(f, p) == ~_iscomment(LineAt(f, p))
\* The starts of the data lines of f, in file order.
DataStarts(f) == SelectSeq(LineStarts(f), LAMBDA p : IsData(f, p))
CellAt(f, p) == <<int(Split(LineAt(f, p))[1]), int(Split(LineAt(f, p))[2])>>
\* Lines read before the start locator looks for data: skip, and the header.
Preamble == skip + (IF header THEN 1 ELSE 0)
\* f without its k-th line.
WithoutLine(f, k) ==
    LET ls == LineStarts(f)
        a == ls[k]
    IN SubSeq(f, 1, a) \o SubSeq(f, a + Len(LineAt(f, a)) + 1, Len(f))

\* ------------------------------------------------- comparison calls
\* The locals of a new call.
CalledAgain ==
    /\ pc' = "tail_open"
    /\ pos' = 0
    /\ line' = <<>>
    /\ lmaxfile' = 0
    /\ lmaxout' = 0
    /\ kind' = ""
    /\ coeffs' = <<>>
    /\ errors' = <<>>
    /\ header_list' = <<>>
    /\ lstart' = 0
    /\ i' = 0
    /\ degree' = 0
    /\ order' = 0
    /\ exc' = NoExc
    /\ ret' = <<>>
    /\ consumed' = <<>>
    /\ written' = <<>>

\* shread is called again on the file without one of its comment lines that
\* follow the skipped lines; the first call's outcome is kept.
DropComment ==
    /\ run = 1
    /\ Terminated
    /\ \E k \in (skip + 1)..Len(LineStarts(file)) :
          /\ _iscomment(LineAt(file, LineStarts(file)[k]))
          /\ file' = WithoutLine(file, k)
          /\ first' = [ret |-> ret, exc |-> exc, dropped |-> k]
    /\ run' = 2
    /\ CalledAgain
    /\ UNCHANGED <<lmax, error, header, skip>>

\* shread is called again with header=False on the file without the line
\* the first call, with header=True, took as the header.
DropHeader ==
    /\ run = 1
    /\ Terminated
    /\ header
    /\ Len(LineStarts(file)) > skip
    /\ file' = WithoutLine(file, skip + 1)
    /\ header' = FALSE
    /\ first' = [ret |-> ret, exc |-> exc, dropped |-> skip + 1]
    /\ run' = 2
    /\ CalledAgain
    /\ UNCHANGED <<lmax, error, skip>>

InitComments ==
    /\ file \in CommentedFiles
    /\ InitArgs
    /\ Called
    /\ lmax \in {<<>>, <<MaxDeg - 1>>}
SpecComments == InitComments /\ [][Next \/ DropComment]_vars

SpecHeader == Init /\ [][Next \/ DropHeader]_vars

\* ------------------------------------------------------------ claims
\* The lines of f, each with its start, its tokens and whether it is a data
\* line.
Rows(f) ==
    LET ls == LineStarts(f)
        row(p) == [p |-> p, toks |-> Split(LineAt(f, p)), data |-> IsData(f, p)]
    IN SubSeq([k \in 1..Len(ls) |-> row(ls[k])], 1, Len(ls))
RowCell(r) == <<int(r.toks[1]), int(r.toks[2])>>
DataRows(P) == SelectSeq(P, LAMBDA r : r.data)
\* The data lines that follow the first n lines.
DataRowsAfter(P, n) == SelectSeq(SubSeq(P, n + 1, Len(P)), LAMBDA r : r.data)
RowAt(P, q) == P[CHOOSE k \in 1..Len(P) : P[k].p = q]
\* The value of a literal of kind K.
ValueOf(K, tok) == IF K = "real" THEN float(tok).val ELSE complex(tok).val
IsLiteral(K, tok) == IF K = "real" THEN float(tok).ok ELSE complex(tok).ok
\* The last of the data lines B: the degree it names, the kind of its third
\* token.
DegreeOf(B) == RowCell(B[Len(B)])[1]
KindOfLast(B) == IF float(B[Len(B)].toks[3]).ok THEN "real"
                 ELSE IF complex(B[Len(B)].toks[3]).ok THEN "complex" ELSE ""
\* A well-formed file for the call, B being the data lines that follow the
\* skipped lines and the header: at least one data line, the cells in
\* row-major order from (lstart, 0) to (D, D), every value a literal of the
\* file's kind, and six tokens on a line when the errors are asked for.
WellFormed(B, err) ==
    /\ B # <<>>
    /\ [k \in 1..Len(B) |-> RowCell(B[k])] = Cells(RowCell(B[1])[1], DegreeOf(B))
    /\ KindOfLast(B) # ""
    /\ \A k \in 1..Len(B) :
          /\ IsLiteral(KindOfLast(B), B[k].toks[3])
          /\ IsLiteral(KindOfLast(B), B[k].toks[4])
          /\ err => /\ Len(B[k].toks) >= 6
                    /\ IsLiteral(KindOfLast(B), B[k].toks[5])
                    /\ IsLiteral(KindOfLast(B), B[k].toks[6])
\* The cells the grid reader is to fill, in the order of its two loops.
Expected == Cells(lstart, lmaxout)

\* C1: for every well-formed file read with no lmax cap the call succeeds
\* with lmaxout = D, the degree on the file's last data line, and the tail
\* scan finds that D whatever skip and header are and wherever the last data
\* line sits, the first line of the file included.
C1_TailFindsLastDataLine ==
    (Terminated /\ run = 1 /\ lmax = <<>>) =>
        \A B \in {DataRowsAfter(Rows(file), Preamble)} :
            WellFormed(B, error)
                => (pc = "done" /\ lmaxfile = DegreeOf(B) /\ lmaxout = DegreeOf(B))

\* C1, where it does hold: when the last data line starts at byte 2 or later
\* (it is not the first line, nor preceded by a single empty line).
C1_HoldsAwayFromFileStart ==
    (Terminated /\ run = 1 /\ lmax = <<>>) =>
        \A B \in {DataRowsAfter(Rows(file), Preamble)} :
            (WellFormed(B, error) /\ B[Len(B)].p >= 2)
                => (pc = "done" /\ lmaxfile = DegreeOf(B) /\ lmaxout = DegreeOf(B))

\* C2: a file with no data line (empty, or comment lines only) makes the
\* tail scan fail with an error of the EndOfFile kind, and no other.
C2_NoDataLineIsEndOfFile ==
    (Terminated /\ run = 1 /\ DataStarts(file) = <<>>)
        => (pc = "raised" /\ exc.kind = "EndOfFile")

\* C3: with lmax = k < D on a well-formed file the call returns lmaxout = k,
\* lmaxfile is D all the same, and the grid reader takes no data line of a
\* degree above k: it stops after cell (k, k).
C3_CapRespected ==
    (pc \in {"grid_check", "done", "raised"} /\ lmax # <<>>) =>
        \A P \in {Rows(file)} : \A B \in {DataRowsAfter(P, Preamble)} :
            (WellFormed(B, error) /\ lmax[1] < DegreeOf(B))
                => /\ pc # "raised"
                   /\ lmaxfile = DegreeOf(B)
                   /\ lmaxout = lmax[1]
                   /\ \A k \in 1..Len(consumed) :
                         RowCell(RowAt(P, consumed[k]))[1] <= lmax[1]
                   /\ pc = "done" => /\ ret[Len(ret)] = lmax[1]
                                     /\ written = Cells(lstart, lmax[1])
                                     /\ Len(consumed) = Len(written)
C3_Witness ==
    /\ pc = "done"
    /\ lmax # <<>>
    /\ lmax[1] < lmaxfile
    /\ written # <<>>
    /\ \E B \in {DataRowsAfter(Rows(file), Preamble)} :
          WellFormed(B, error) /\ Len(B) > Len(consumed)

C5_OrderChecked ==
    /\ \A k \in 1..Len(consumed) :
          /\ k <= Len(Expected)
          /\ \/ CellAt(file, consumed[k]) = Expected[k]
             \/ /\ k = Len(consumed)
                /\ pc \in {"grid_check", "raised"}
                /\ pc = "raised" => (exc.kind = "OrderMismatch" /\ ret = <<>>)
    /\ pc = "done" =>
          \A B \in {DataRowsAfter(Rows(file), Preamble)} :
              /\ Len(B) >= Len(Expected)
              /\ consumed = [k \in 1..Len(Expected) |-> B[k].p]
              /\ lstart = RowCell(B[1])[1]
C5_Witness ==
    /\ pc = "raised"
    /\ exc.kind = "OrderMismatch"
    /\ Len(consumed) >= 2
\* C5 as stated: a call succeeds only if the data lines (all that follow the
\* skipped lines and the header) are in row-major order from (lstart, 0).
C5_SuccessOnlyInOrder ==
    pc = "done" =>
        \A B \in {DataRowsAfter(Rows(file), Preamble)} :
            [k \in 1..Len(B) |-> RowCell(B[k])] = Cells(lstart, DegreeOf(B))

\* C6 (amended): with error=True, a data line of fewer than 6 tokens that the
\* grid reader takes for the expected cell, and whose tokens 3 and 4 are
\* literals of the kind, ends the call with InsufficientFields and nothing
\* returned, after its own coefficients, and those of the cells before it,
\* were written.
C6_ShortLineAborts ==
    error =>
        \A k \in 1..Len(consumed) :
            \A toks \in {Split(LineAt(file, consumed[k]))} :
               (/\ Len(toks) < 6
                /\ k <= Len(Expected)
                /\ <<int(toks[1]), int(toks[2])>> = Expected[k]
                /\ IsLiteral(kind, toks[3])
                /\ IsLiteral(kind, toks[4]))
               => /\ k = Len(consumed)
                  /\ pc \in {"grid_check", "grid_coeffs", "grid_errors", "raised"}
                  /\ pc = "raised" =>
                        /\ exc.kind = "InsufficientFields"
                        /\ ret = <<>>
                        /\ written = SubSeq(Expected, 1, k)
                        /\ coeffs[<<0>> \o Expected[k]] = ValueOf(kind, toks[3])
                        /\ coeffs[<<1>> \o Expected[k]] = ValueOf(kind, toks[4])
C6_Witness ==
    /\ pc = "raised"
    /\ exc.kind = "InsufficientFields"
    /\ Len(written) >= 2
\* C6 as stated: every data line of fewer than 6 tokens that the grid reader
\* takes (here: for the expected cell) ends the call with InsufficientFields.
C6_EveryShortLineIsInsufficientFields ==
    (/\ Terminated
     /\ error
     /\ \E k \in 1..Len(consumed) :
           /\ Len(Split(LineAt(file, consumed[k]))) < 6
           /\ k <= Len(Expected)
           /\ CellAt(file, consumed[k]) = Expected[k])
        => (pc = "raised" /\ exc.kind = "InsufficientFields")

\* C7: with header=True the header tokens returned are the tokens of the
\* line at position skip+1, comment or data line alike; that line is not
\* taken by the start locator or the grid reader; and the coefficients are
\* those returned for the file without that line, read with header=False.
C7_HeaderCaptured ==
    /\ (run = 1 /\ pc = "done" /\ header) =>
          \A P \in {Rows(file)} :
              /\ header_list = P[skip + 1].toks
              /\ ret[Len(ret) - 1] = header_list
              /\ \A k \in 1..Len(consumed) : consumed[k] > P[skip + 1].p
              /\ lstart = RowCell(DataRowsAfter(P, skip + 1)[1])[1]
    /\ (run = 2 /\ Terminated /\ first.ret # <<>>) =>
          (pc = "done" /\ ret[1] = first.ret[1])
\* C7, where it does hold: unless the second call's tail scan runs off the
\* start of the file (C1).
C7_HoldsUnlessTailScanFails ==
    /\ (run = 1 /\ pc = "done" /\ header) =>
          \A P \in {Rows(file)} :
              /\ header_list = P[skip + 1].toks
              /\ ret[Len(ret) - 1] = header_list
              /\ \A k \in 1..Len(consumed) : consumed[k] > P[skip + 1].p
              /\ lstart = RowCell(DataRowsAfter(P, skip + 1)[1])[1]
    /\ (run = 2 /\ Terminated /\ first.ret # <<>>) =>
          \/ pc = "done" /\ ret[1] = first.ret[1]
          \/ pc = "raised" /\ exc = OSErrorInvalid /\ lmaxfile = 0 /\ kind = ""

\* C8: when shread returns, every cell (l, m), lstart <= l <= lmaxout,
\* 0 <= m <= l, was written once, in row-major order, from tokens 3 and 4
\* (and 5 and 6 for the errors) of the data line that names it, all parsed
\* under the kind of the file's last data line; no write leaves
\* 0 <= m <= l <= lmaxout, and the other cells are zero.
C8_GridFilled ==
    /\ \A k \in 1..Len(written) :
          /\ k <= Len(Expected)
          /\ written[k] = Expected[k]
          /\ 0 <= written[k][2]
          /\ written[k][2] <= written[k][1]
          /\ written[k][1] <= lmaxout
    /\ pc = "done" =>
          \A P \in {Rows(file)} : \A B \in {DataRowsAfter(P, Preamble)} :
          \A K \in {KindOfLast(DataRows(P))} :
             /\ written = Expected
             /\ kind = K
             /\ Len(B) >= Len(Expected)
             /\ DOMAIN coeffs = (0..1) \X (0..lmaxout) \X (0..lmaxout)
             /\ ret[1] = coeffs
             /\ error => (ret[2] = errors /\ DOMAIN errors = DOMAIN coeffs)
             /\ \A k \in 1..Len(Expected) :
                   LET l == Expected[k][1]
                       m == Expected[k][2]
                   IN /\ RowCell(B[k]) = <<l, m>>
                      /\ coeffs[<<0, l, m>>] = ValueOf(K, B[k].toks[3])
                      /\ coeffs[<<1, l, m>>] = ValueOf(K, B[k].toks[4])
                      /\ error => /\ errors[<<0, l, m>>] = ValueOf(K, B[k].toks[5])
                                  /\ errors[<<1, l, m>>] = ValueOf(K, B[k].toks[6])
             /\ \A c \in DOMAIN coeffs :
                   (c[2] < lstart \/ c[3] > c[2])
                       => /\ coeffs[c] = (IF K = "real" THEN 0 ELSE <<0, 0>>)
                          /\ error => errors[c] = (IF K = "real" THEN 0 ELSE <<0, 0>>)
C8_Witness ==
    /\ pc = "done"
    /\ kind = "complex"
    /\ error
    /\ lstart >= 1
    /\ Len(written) >= 2

\* C9: the OrderMismatch error names as expected the pair (degree, order) the
\* reader was waiting for, and as read the pair (l, m) of the offending line.
C9_MismatchNamesPairs ==
    (pc = "raised" /\ exc.kind = "OrderMismatch")
        => /\ exc.expected = <<degree, order>>
           /\ exc.read = <<int(Split(line)[1]), int(Split(line)[2])>>

\* C10: every call ends, returning or raising.  Each step of the tail scan
\* lowers a measure that is never negative (so the scan cannot stay at the
\* start of the file), and each turn of a forward loop moves the handle on.
TailPcs == {"tail_strip", "tail_back", "tail_readline"}
TailMeasure == IF pc = "tail_strip" THEN 2 * pos + 4
               ELSE IF pc = "tail_back" THEN 2 * pos + 3
               ELSE 2 * pos
TailDescends ==
    (pc \in TailPcs /\ pc' \in TailPcs)
        => (TailMeasure' < TailMeasure /\ TailMeasure' >= 0)
ForwardAdvances ==
    (pc \in {"skip", "start", "reskip", "grid_read"} /\ pc' = pc) => pos' > pos
C10_Terminates == <>Terminated /\ [][TailDescends /\ ForwardAdvances]_vars
C10_Witness ==
    /\ pc = "raised"
    /\ exc = OSErrorInvalid
    /\ Len(LineStarts(file)) >= 2
    /\ DataStarts(file) = <<>>

====
